---- MODULE Spec2Model ----
(***************************************************************************)
(* A model of transcribe.py: the two timestamp formatters, the four output *)
(* renderings of save_transcription, and the control flow of main.         *)
(*                                                                         *)
(* Text is modelled as a sequence of one-character strings, so that        *)
(* formatting, stripping, escaping and parsing are computed character by   *)
(* character.  A Python float is modelled as an exact dyadic rational with *)
(* at most 53 significant bits (IEEE-754 binary64, round to nearest even). *)
(***************************************************************************)
EXTENDS Integers, Sequences, FiniteSets, TLC

VARIABLES
    tsPc,         \* timestamp harness: "idle", "srt" or "clock" ("off" when unused)
    tsIn,         \* the offset handed to the formatter, in whole milliseconds
    tsOut,        \* the text the formatter returned
    result,       \* the transcription result handed to save_transcription
    format_type,  \* the format_type argument of the call
    file,         \* the file at output_path
    savePc,       \* "call" before save_transcription runs, "returned" after
    args,         \* main: the parsed command line
    files,        \* main: the regular files on disk, path |-> content
    dirs,         \* main: the directories on disk
    mainPc,       \* main: the step main is at
    video_path,   \* main: the resolved local video
    fmt_index,    \* main: position of the save loop in formats
    raised,       \* main: an exception is propagating out of the try block
    exit_code,    \* main: the exit status, -1 while running
    probes,       \* history: the paths resolution asked the file system about
    download_returned, \* history: "not called", or what download_youtube_video returned
    transcribe_calls,  \* history: calls of transcribe_audio
    written,      \* history: the paths save_transcription wrote, in order
    audio_created, \* history: extract_audio created the waveform file
    extracted     \* history: "pending", or whether extract_audio returned "ok" or "failed"

tsVars   == <<tsPc, tsIn, tsOut>>
fmtVars  == <<result, format_type, file, savePc>>
mainVars == <<args, files, dirs, mainPc, video_path, fmt_index, raised, exit_code,
              probes, download_returned, transcribe_calls, written, audio_created,
              extracted>>
vars     == <<tsVars, fmtVars, mainVars>>

----------------------------------------------------------------------------
(* Text helpers                                                            *)

Digits == <<"0", "1", "2", "3", "4", "5", "6", "7", "8", "9">>

DigitChar(d) == Digits[d + 1]

\* "%d" of a non-negative integer
RECURSIVE Dec(_)
Dec(n) == IF n < 10 THEN <<DigitChar(n)>>
          ELSE Dec(n \div 10) \o <<DigitChar(n % 10)>>

Zeros(n) == [i \in 1..n |-> "0"]

\* "%0<width>d": zero-padded to at least width characters, never cut
PadDec(n, width) == Zeros(width - Len(Dec(n))) \o Dec(n)

----------------------------------------------------------------------------
(* Python float arithmetic.  A big natural is a sequence of bits, most     *)
(* significant first; a float is [bits, p] and stands for bits / 2^p.      *)

MantissaBits == 53

\* the scale at which a quotient is computed before it is rounded
DivScale == 64

\* bits are taken four at a time
ChunkBits == 4
ChunkBase == 16

ZeroBits(n) == [i \in 1..n |-> 0]

RECURSIVE NatBits(_)
NatBits(n) == IF n = 0 THEN <<>> ELSE NatBits(n \div 2) \o <<n % 2>>

RECURSIVE BitsNat(_)
BitsNat(b) == IF b = <<>> THEN 0
              ELSE 2 * BitsNat(SubSeq(b, 1, Len(b) - 1)) + b[Len(b)]

\* n < 2^w written in exactly w bits
FixedBits(n, w) == [i \in 1..w |-> (n \div 2^(w - i)) % 2]

\* b with zeros put in front, to a whole number of chunks
PadToChunks(b) == ZeroBits((ChunkBits - (Len(b) % ChunkBits)) % ChunkBits) \o b

StripLeadingZeros(b) ==
    LET ones == {i \in 1..Len(b) : b[i] = 1}
    IN  IF ones = {} THEN <<>>
        ELSE SubSeq(b, CHOOSE i \in ones : \A j \in ones : i <= j, Len(b))

AnyBitSet(b) == \E i \in 1..Len(b) : b[i] = 1

\* b + 1: the last 0 becomes 1 and the 1s after it become 0
IncBits(b) ==
    LET zeros == {i \in 1..Len(b) : b[i] = 0}
    IN  IF zeros = {} THEN <<1>> \o ZeroBits(Len(b))
        ELSE LET z == CHOOSE i \in zeros : \A j \in zeros : j <= i
             IN  SubSeq(b, 1, z - 1) \o <<1>> \o ZeroBits(Len(b) - z)

\* b * c for a small natural c, schoolbook from the least significant chunk;
\* acc holds the product bits already written, carry what is carried into the next
RECURSIVE MulBitsAcc(_, _, _, _)
MulBitsAcc(b, c, carry, acc) ==
    IF Len(acc) = Len(b) THEN NatBits(carry) \o acc
    ELSE LET hi == Len(b) - Len(acc)
             v  == BitsNat(SubSeq(b, hi - ChunkBits + 1, hi)) * c + carry
         IN  MulBitsAcc(b, c, v \div ChunkBase, FixedBits(v % ChunkBase, ChunkBits) \o acc)

MulBits(b, c) == MulBitsAcc(PadToChunks(b), c, 0, <<>>)

\* long division of b by a small natural d, from the most significant chunk:
\* [q |-> quotient bits, r |-> remainder]
RECURSIVE DivBitsAcc(_, _, _, _)
DivBitsAcc(b, d, r, q) ==
    IF Len(q) = Len(b) THEN [q |-> q, r |-> r]
    ELSE LET v == ChunkBase * r + BitsNat(SubSeq(b, Len(q) + 1, Len(q) + ChunkBits))
         IN  DivBitsAcc(b, d, v % d, q \o FixedBits(v \div d, ChunkBits))

DivBits(b, d) == DivBitsAcc(PadToChunks(b), d, 0, <<>>)

\* Round the natural b (with "sticky" telling that a non-zero part below its
\* last bit was already cut off) to MantissaBits significant bits, to nearest,
\* ties to even: [m |-> mantissa bits, dropped |-> number of low bits dropped].
RoundBits(b, sticky) ==
    LET sig == StripLeadingZeros(b)
        n   == Len(sig)
    IN  IF n <= MantissaBits THEN [m |-> sig, dropped |-> 0]
        ELSE LET keep  == SubSeq(sig, 1, MantissaBits)
                 guard == sig[MantissaBits + 1]
                 rest  == SubSeq(sig, MantissaBits + 2, n)
                 up    == guard = 1 /\ (sticky \/ AnyBitSet(rest) \/ keep[MantissaBits] = 1)
             IN  [m |-> IF up THEN IncBits(keep) ELSE keep, dropped |-> n - MantissaBits]

\* the float  m * 2^dropped / 2^scale
MkFloat(m, dropped, scale) ==
    IF dropped <= scale THEN [bits |-> m, p |-> scale - dropped]
    ELSE [bits |-> m \o ZeroBits(dropped - scale), p |-> 0]

\* float(n) / float(d) for naturals n and d, d > 0: the float nearest to n/d
F64Ratio(n, d) ==
    LET qr == DivBits(NatBits(n) \o ZeroBits(DivScale), d)
        rd == RoundBits(qr.q, qr.r # 0)
    IN  MkFloat(rd.m, rd.dropped, DivScale)

\* the whole part and the fraction bits of a non-negative float
F64WholeBits(x) == IF Len(x.bits) <= x.p THEN <<>> ELSE SubSeq(x.bits, 1, Len(x.bits) - x.p)

\* the p bits below the binary point
F64FracBits(x) == IF Len(x.bits) <= x.p THEN ZeroBits(x.p - Len(x.bits)) \o x.bits
                  ELSE SubSeq(x.bits, Len(x.bits) - x.p + 1, Len(x.bits))

\* int(x): truncation toward zero
F64Int(x) == BitsNat(F64WholeBits(x))

\* x % n for a whole n > 0 and x >= 0 (fmod, which is exact)
F64Mod(x, n) == [bits |-> NatBits(F64Int(x) % n) \o F64FracBits(x), p |-> x.p]

\* x // n for a whole n > 0 and x >= 0: (x - fmod(x, n)) / n is a whole number
\* and exact, so the floor of the true quotient
F64FloorDiv(x, n) == [bits |-> NatBits(F64Int(x) \div n), p |-> 0]

\* x * c for a whole c: the exact product rounded to a float
F64Mul(x, c) ==
    LET rd == RoundBits(MulBits(x.bits, c), FALSE)
    IN  MkFloat(rd.m, rd.dropped, x.p)

----------------------------------------------------------------------------
(* The timestamp formatters                                                *)

\* the float  t / 1000.0 : an offset of t whole milliseconds, in seconds
Seconds(t) == F64Ratio(t, 1000)

format_srt_timestamp(seconds) ==
    LET hours   == F64Int(F64FloorDiv(seconds, 3600))
        minutes == F64Int(F64FloorDiv(F64Mod(seconds, 3600), 60))
        secs    == F64Int(F64Mod(seconds, 60))
        millis  == F64Int(F64Mul(F64Mod(seconds, 1), 1000))
    IN  PadDec(hours, 2) \o <<":">> \o PadDec(minutes, 2) \o <<":">>
        \o PadDec(secs, 2) \o <<",">> \o PadDec(millis, 3)

\* str(timedelta(days, seconds)): "H:MM:SS", preceded by "D day(s), "
\* when days is not zero
TimedeltaStr(days, seconds) ==
    LET ss == seconds % 60
        mm == (seconds \div 60) % 60
        hh == (seconds \div 60) \div 60
        s  == Dec(hh) \o <<":">> \o PadDec(mm, 2) \o <<":">> \o PadDec(ss, 2)
    IN  IF days # 0
        THEN Dec(days) \o <<" ", "d", "a", "y">>
             \o (IF days # 1 THEN <<"s">> ELSE <<>>) \o <<",", " ">> \o s
        ELSE s

\* timedelta(seconds=n) carries whole days out of the seconds
format_timestamp(seconds) ==
    LET n == F64Int(seconds)
    IN  TimedeltaStr(n \div 86400, n % 86400)

----------------------------------------------------------------------------
(* str.strip()                                                            *)

PyWhitespace == {" ", "\t", "\n", "\r", "\f"}

RECURSIVE LStrip(_)
LStrip(s) == IF s # <<>> /\ s[1] \in PyWhitespace THEN LStrip(Tail(s)) ELSE s

RECURSIVE RStrip(_)
RStrip(s) == IF s # <<>> /\ s[Len(s)] \in PyWhitespace
             THEN RStrip(SubSeq(s, 1, Len(s) - 1)) ELSE s

Strip(s) == RStrip(LStrip(s))

----------------------------------------------------------------------------
(* json.dump(obj, f, indent=2, ensure_ascii=False).  A JSON value is a    *)
(* tagged record; a dict keeps its members in insertion order.            *)

JStr(s)     == [t |-> "str", s |-> s]
JFloat(x)   == [t |-> "float", x |-> x]
JInt(n)     == [t |-> "int", n |-> n]
JList(xs)   == [t |-> "list", items |-> xs]
JDict(kvs)  == [t |-> "dict", members |-> kvs]
JError      == [t |-> "error"]

NL == <<"\n">>

Spaces(n) == [i \in 1..n |-> " "]

RECURSIVE Pow10(_)
Pow10(k) == IF k = 0 THEN 1 ELSE 10 * Pow10(k - 1)

\* the most decimals the search for the shortest repr tries
MaxReprDecimals == 6

\* x * 10^k rounded to the nearest whole number, ties to even
RoundedScaled(x, k) ==
    LET prod  == MulBits(F64FracBits(x), Pow10(k))
        top   == SubSeq(prod, 1, Len(prod) - x.p)
        low   == SubSeq(prod, Len(prod) - x.p + 1, Len(prod))
        n0    == F64Int(x) * Pow10(k) + BitsNat(top)
        up    == low # <<>> /\ low[1] = 1 /\ (AnyBitSet(Tail(low)) \/ n0 % 2 = 1)
    IN  IF up THEN n0 + 1 ELSE n0

\* the least number of decimals whose rounding of x reads back as x
RECURSIVE ReprDecimals(_, _)
ReprDecimals(x, k) ==
    IF k >= MaxReprDecimals \/ F64Ratio(RoundedScaled(x, k), Pow10(k)) = x THEN k
    ELSE ReprDecimals(x, k + 1)

\* repr(x) of a float in the range written without an exponent: the shortest
\* decimal that reads back as x, with at least one decimal
FloatRepr(x) ==
    LET k0 == ReprDecimals(x, 0)
        k  == IF k0 = 0 THEN 1 ELSE k0
        n  == RoundedScaled(x, k)
    IN  Dec(n \div Pow10(k)) \o <<".">> \o PadDec(n % Pow10(k), k)

\* json.encoder.py_encode_basestring: the escapes of ensure_ascii=False
JsonEscapeChar(c) ==
    CASE c = "\"" -> <<"\\", "\"">>
      [] c = "\\" -> <<"\\", "\\">>
      [] c = "\n" -> <<"\\", "n">>
      [] c = "\r" -> <<"\\", "r">>
      [] c = "\t" -> <<"\\", "t">>
      [] c = "\f" -> <<"\\", "f">>
      [] OTHER    -> <<c>>

RECURSIVE JsonEscape(_)
JsonEscape(s) == IF s = <<>> THEN <<>> ELSE JsonEscapeChar(s[1]) \o JsonEscape(Tail(s))

JsonQuote(s) == <<"\"">> \o JsonEscape(s) \o <<"\"">>

RECURSIVE JsonDump(_, _)
RECURSIVE DumpItems(_, _, _)
RECURSIVE DumpMembers(_, _, _)

\* the items from the k-th on, one per line at the given level
DumpItems(xs, k, level) ==
    JsonDump(xs[k], level)
    \o (IF k = Len(xs) THEN <<>>
        ELSE <<",">> \o NL \o Spaces(2 * level) \o DumpItems(xs, k + 1, level))

DumpMembers(kvs, k, level) ==
    JsonQuote(kvs[k][1]) \o <<":", " ">> \o JsonDump(kvs[k][2], level)
    \o (IF k = Len(kvs) THEN <<>>
        ELSE <<",">> \o NL \o Spaces(2 * level) \o DumpMembers(kvs, k + 1, level))

JsonDump(v, level) ==
    CASE v.t = "str"   -> JsonQuote(v.s)
      [] v.t = "float" -> FloatRepr(v.x)
      [] v.t = "int"   -> Dec(v.n)
      [] v.t = "list"  ->
            IF v.items = <<>> THEN <<"[", "]">>
            ELSE <<"[">> \o NL \o Spaces(2 * (level + 1)) \o DumpItems(v.items, 1, level + 1)
                 \o NL \o Spaces(2 * level) \o <<"]">>
      [] v.t = "dict"  ->
            IF v.members = <<>> THEN <<"{", "}">>
            ELSE <<"{">> \o NL \o Spaces(2 * (level + 1)) \o DumpMembers(v.members, 1, level + 1)
                 \o NL \o Spaces(2 * level) \o <<"}">>

----------------------------------------------------------------------------
(* json.load: the reading side of the round trip                           *)

JsonWhitespace == {" ", "\t", "\n", "\r"}

DigitChars == {"0", "1", "2", "3", "4", "5", "6", "7", "8", "9"}

\* the character at position i, or "" past the end
Ch(s, i) == IF i >= 1 /\ i <= Len(s) THEN s[i] ELSE ""

DigitValue(c) == CHOOSE d \in 0..9 : Digits[d + 1] = c

RECURSIVE DigitsNat(_)
DigitsNat(ds) == IF ds = <<>> THEN 0
                 ELSE 10 * DigitsNat(SubSeq(ds, 1, Len(ds) - 1)) + DigitValue(ds[Len(ds)])

RECURSIVE SkipWs(_, _)
SkipWs(s, i) == IF Ch(s, i) \in JsonWhitespace THEN SkipWs(s, i + 1) ELSE i

JsonUnescapeChar(c) ==
    CASE c = "n" -> "\n"
      [] c = "r" -> "\r"
      [] c = "t" -> "\t"
      [] c = "f" -> "\f"
      [] OTHER   -> c

\* the string whose opening quote was just read; acc is what was read of it
RECURSIVE ParseString(_, _, _)
ParseString(s, i, acc) ==
    IF Ch(s, i) = "" THEN [v |-> JError, i |-> i]
    ELSE IF Ch(s, i) = "\"" THEN [v |-> JStr(acc), i |-> i + 1]
    ELSE IF Ch(s, i) = "\\" THEN ParseString(s, i + 2, Append(acc, JsonUnescapeChar(Ch(s, i + 1))))
    ELSE ParseString(s, i + 1, Append(acc, s[i]))

RECURSIVE SpanDigits(_, _)
SpanDigits(s, i) == IF Ch(s, i) \in DigitChars THEN SpanDigits(s, i + 1) ELSE i

\* a number: digits, and a float when a fraction follows
ParseNumber(s, i) ==
    LET j == SpanDigits(s, i)
        k == SpanDigits(s, j + 1)
    IN  IF j = i THEN [v |-> JError, i |-> i]
        ELSE IF Ch(s, j) = "." /\ k > j + 1
        THEN [v |-> JFloat(F64Ratio(DigitsNat(SubSeq(s, i, j - 1) \o SubSeq(s, j + 1, k - 1)),
                                    Pow10(k - j - 1))),
              i |-> k]
        ELSE [v |-> JInt(DigitsNat(SubSeq(s, i, j - 1))), i |-> j]

RECURSIVE ParseValue(_, _)
RECURSIVE ParseItems(_, _, _)
RECURSIVE ParseMembers(_, _, _)

ParseItems(s, i, acc) ==
    LET r == ParseValue(s, i)
        j == SkipWs(s, r.i)
    IN  IF r.v = JError THEN r
        ELSE IF Ch(s, j) = "," THEN ParseItems(s, j + 1, Append(acc, r.v))
        ELSE IF Ch(s, j) = "]" THEN [v |-> JList(Append(acc, r.v)), i |-> j + 1]
        ELSE [v |-> JError, i |-> j]

ParseMembers(s, i, acc) ==
    LET ik == SkipWs(s, i)
        key == IF Ch(s, ik) = "\"" THEN ParseString(s, ik + 1, <<>>) ELSE [v |-> JError, i |-> ik]
        ic == SkipWs(s, key.i)
        r == ParseValue(s, ic + 1)
        j == SkipWs(s, r.i)
    IN  IF key.v = JError \/ Ch(s, ic) # ":" THEN [v |-> JError, i |-> ic]
        ELSE IF r.v = JError THEN r
        ELSE IF Ch(s, j) = "," THEN ParseMembers(s, j + 1, Append(acc, <<key.v.s, r.v>>))
        ELSE IF Ch(s, j) = "}" THEN [v |-> JDict(Append(acc, <<key.v.s, r.v>>)), i |-> j + 1]
        ELSE [v |-> JError, i |-> j]

ParseValue(s, i0) ==
    LET i == SkipWs(s, i0)
        c == Ch(s, i)
    IN  CASE c = "\"" -> ParseString(s, i + 1, <<>>)
          [] c = "[" -> IF Ch(s, SkipWs(s, i + 1)) = "]"
                        THEN [v |-> JList(<<>>), i |-> SkipWs(s, i + 1) + 1]
                        ELSE ParseItems(s, i + 1, <<>>)
          [] c = "{" -> IF Ch(s, SkipWs(s, i + 1)) = "}"
                        THEN [v |-> JDict(<<>>), i |-> SkipWs(s, i + 1) + 1]
                        ELSE ParseMembers(s, i + 1, <<>>)
          [] OTHER   -> ParseNumber(s, i)

\* json.loads: one value and nothing but whitespace after it
JsonLoads(s) ==
    LET r == ParseValue(s, 1)
    IN  IF r.v # JError /\ SkipWs(s, r.i) = Len(s) + 1 THEN r.v ELSE JError

----------------------------------------------------------------------------
(* save_transcription                                                      *)

K_text     == <<"t", "e", "x", "t">>
K_language == <<"l", "a", "n", "g", "u", "a", "g", "e">>
K_segments == <<"s", "e", "g", "m", "e", "n", "t", "s">>
K_start    == <<"s", "t", "a", "r", "t">>
K_end      == <<"e", "n", "d">>

Arrow  == <<" ", "-", "-", ">", " ">>
WEBVTT == <<"W", "E", "B", "V", "T", "T">>

\* a file that was not opened, and a file holding data
NoFile == [exists |-> FALSE, data |-> <<>>]
FileOf(data) == [exists |-> TRUE, data |-> data]

\* a variant that copies the segment's id as well
SegmentItemKeepsId(seg) ==
    JDict(<< <<<<"i", "d">>, JInt(seg.id)>>,
             <<K_start, JFloat(seg.start)>>,
             <<K_end,   JFloat(seg.end)>>,
             <<K_text,  JStr(seg.text)>> >>)

\* one item of the "segments" list of the json branch
SegmentItem(seg) ==
    JDict(<< <<K_start, JFloat(seg.start)>>,
             <<K_end,   JFloat(seg.end)>>,
             <<K_text,  JStr(seg.text)>> >>)

OutputData(res) ==
    JDict(<< <<K_text,     JStr(res.text)>>,
             <<K_language, JStr(res.language)>>,
             <<K_segments, JList([k \in 1..Len(res.segments) |->
                                     SegmentItem(res.segments[k])])>> >>)

\* the two writes every cue ends with: the time range and the stripped text
CueBody(segment) ==
    LET start_time == format_srt_timestamp(segment.start)
        end_time   == format_srt_timestamp(segment.end)
    IN  start_time \o Arrow \o end_time \o NL
        \o Strip(segment.text) \o NL \o NL

\* a variant that numbers the cues as enumerate does without start=1
SrtCueFromZero(i, segment) == Dec(i - 1) \o NL \o CueBody(segment)

\* the three writes of the srt loop for the segment enumerate gives index i
SrtCue(i, segment) == Dec(i) \o NL \o CueBody(segment)

\* for i, segment in enumerate(segments, start=1), from position k on
RECURSIVE SrtLoop(_, _, _)
SrtLoop(segments, k, f) ==
    IF k > Len(segments) THEN f
    ELSE SrtLoop(segments, k + 1, f \o SrtCue(k, segments[k]))

VttHeader == WEBVTT \o NL \o NL

\* a variant that writes a cue number before each cue, as the srt branch does
VttLoopNumbered(segments, k, f) == SrtLoop(segments, k, f)

RECURSIVE VttLoop(_, _, _)
VttLoop(segments, k, f) ==
    IF k > Len(segments) THEN f
    ELSE VttLoop(segments, k + 1, f \o CueBody(segments[k]))

\* the file at output_path when save_transcription returns
save_transcription(res, fmt) ==
    IF fmt = "txt" THEN FileOf(res.text)
    ELSE IF fmt = "json" THEN FileOf(JsonDump(OutputData(res), 0))
    ELSE IF fmt = "srt" THEN FileOf(SrtLoop(res.segments, 1, <<>>))
    ELSE IF fmt = "vtt" THEN FileOf(VttLoop(res.segments, 1, VttHeader))
    ELSE NoFile

----------------------------------------------------------------------------
(* Formatter harness: one transcription result, one call of                *)
(* save_transcription                                                      *)

MaxSegments == 3

\* a Whisper segment: the fields the formatter reads and one it does not
Segment(start_ms, end_ms, text) ==
    [id |-> 0, start |-> Seconds(start_ms), end |-> Seconds(end_ms), text |-> text]

SampleSegments ==
    { Segment(0, 1200, <<" ", "h", "i", " ">>),
      Segment(1200, 2500, <<"1">>),
      Segment(2500, 2500, <<"\n", " ", "a", "\"", "\\", "é", "\t">>),
      Segment(1001, 3661500, <<>>),
      Segment(5000, 6000, <<"a", "\n", "2", "\n", "b">>) }

RECURSIVE ConcatTexts(_)
ConcatTexts(segs) == IF segs = <<>> THEN <<>> ELSE segs[1].text \o ConcatTexts(Tail(segs))

\* what transcribe_audio returns: Whisper's result (the text, the language,
\* the segments numbered from 0) with the elapsed time added to it
ResultOf(segs) ==
    [text |-> ConcatTexts(segs),
     language |-> <<"e", "n">>,
     segments |-> [k \in 1..Len(segs) |-> [segs[k] EXCEPT !.id = k - 1]],
     _transcription_time |-> Seconds(3500)]

Results == {ResultOf(segs) : segs \in UNION {[1..n -> SampleSegments] : n \in 0..MaxSegments}}

\* the values main can pass, and two it cannot
FormatTypes == {"txt", "json", "srt", "vtt", "all", "pdf"}

NoResult == [text |-> <<>>, language |-> <<>>, segments |-> <<>>]

TsOff  == tsPc = "off" /\ tsIn = 0 /\ tsOut = <<>>
FmtOff == result = NoResult /\ format_type = "" /\ file = NoFile /\ savePc = "off"
MainOff ==
    /\ args = [video_path |-> <<>>] /\ files = <<>> /\ dirs = {} /\ mainPc = "off"
    /\ video_path = <<>> /\ fmt_index = 0 /\ raised = FALSE /\ exit_code = -1
    /\ probes = <<>> /\ download_returned = "not called" /\ transcribe_calls = 0
    /\ written = <<>> /\ audio_created = FALSE /\ extracted = "pending"

FmtInit == /\ result \in Results
           /\ format_type = ""
           /\ file = NoFile
           /\ savePc = "call"
           /\ TsOff
           /\ MainOff

SaveTranscription(fmt) ==
    /\ savePc = "call"
    /\ format_type' = fmt
    /\ file' = save_transcription(result, fmt)
    /\ savePc' = "returned"
    /\ UNCHANGED <<result, tsVars, mainVars>>

FmtNext == \E fmt \in FormatTypes : SaveTranscription(fmt)

FmtSpec == FmtInit /\ [][FmtNext]_vars

----------------------------------------------------------------------------
(* Properties of save_transcription                                        *)

Returned(fmt) == savePc = "returned" /\ format_type = fmt

\* the lines of a text: what stands between two cuts that follow each other,
\* the cuts being its newlines, its start and its end
LinesOf(s) ==
    LET cuts == {0, Len(s) + 1} \cup {i \in 1..Len(s) : s[i] = "\n"}
    IN  {SubSeq(s, a + 1, b - 1) :
            <<a, b>> \in {c \in cuts \X cuts :
                             c[1] < c[2] /\ \A m \in cuts : ~(c[1] < m /\ m < c[2])}}

IsNumericLine(l) == l # <<>> /\ \A k \in 1..Len(l) : l[k] \in DigitChars

\* the k-th cue block the claim describes, for the segment seg
ExpectedTimeLine(seg) ==
    format_srt_timestamp(seg.start) \o <<" ", "-", "-", ">", " ">> \o format_srt_timestamp(seg.end)

ExpectedSrtBlock(k, seg) ==
    Dec(k) \o <<"\n">> \o ExpectedTimeLine(seg) \o <<"\n">> \o Strip(seg.text) \o <<"\n", "\n">>

ExpectedVttBlock(seg) ==
    ExpectedTimeLine(seg) \o <<"\n">> \o Strip(seg.text) \o <<"\n", "\n">>

\* the blocks of the first n segments, one after the other
RECURSIVE ExpectedSrt(_, _)
ExpectedSrt(segs, n) ==
    IF n = 0 THEN <<>> ELSE ExpectedSrt(segs, n - 1) \o ExpectedSrtBlock(n, segs[n])

RECURSIVE ExpectedVtt(_, _)
ExpectedVtt(segs, n) ==
    IF n = 0 THEN <<"W", "E", "B", "V", "T", "T", "\n", "\n">>
    ELSE ExpectedVtt(segs, n - 1) \o ExpectedVttBlock(segs[n])

\* C4: the SRT rendering of a result with N segments is exactly N cue blocks in
\* segment order, the k-th being the line k, the line "start --> end" in
\* subtitle timestamps, the stripped text of segment k and a blank line; so the
\* index lines are 1, 2, ..., N.
SrtIsNumberedBlocks ==
    Returned("srt") =>
        /\ file.exists
        /\ file.data = ExpectedSrt(result.segments, Len(result.segments))

SrtWitness ==
    /\ Returned("srt")
    /\ Len(result.segments) >= 2
    /\ \E k \in 1..Len(result.segments) :
          Strip(result.segments[k].text) # result.segments[k].text
    /\ file.data # <<>>

\* C5: a call with a format that is none of txt, json, srt, vtt never returns
\* normally.
UnknownFormatNeverReturns ==
    ~(savePc = "returned" /\ format_type \notin {"txt", "json", "srt", "vtt"})

\* C7 as stated: the VTT rendering is the header line WEBVTT, a blank line and
\* then, per segment, the time range line, the stripped text and a blank line;
\* it has no line that is a number; it differs from the SRT rendering.
VttHasNoNumericLine ==
    Returned("vtt") =>
        /\ file.data = ExpectedVtt(result.segments, Len(result.segments))
        /\ \A l \in LinesOf(file.data) : ~IsNumericLine(l)
        /\ file.data # save_transcription(result, "srt").data

\* C7 as amended: the same layout and the same difference from the SRT
\* rendering, and a line that is a number occurs only where the stripped text
\* of a segment has that line.
VttIsHeaderAndCues ==
    Returned("vtt") =>
        /\ file.exists
        /\ SubSeq(file.data, 1, 8) = <<"W", "E", "B", "V", "T", "T", "\n", "\n">>
        /\ file.data = ExpectedVtt(result.segments, Len(result.segments))
        /\ \A l \in LinesOf(file.data) :
              IsNumericLine(l) =>
                 \E k \in 1..Len(result.segments) :
                    l \in LinesOf(Strip(result.segments[k].text))
        /\ file.data # save_transcription(result, "srt").data

VttWitness ==
    /\ Returned("vtt")
    /\ Len(result.segments) >= 2
    /\ \E k \in 1..Len(result.segments) :
          Strip(result.segments[k].text) # result.segments[k].text
    /\ \A k \in 1..Len(result.segments) :
          \A l \in LinesOf(Strip(result.segments[k].text)) : ~IsNumericLine(l)

KeysOf(members) == [k \in 1..Len(members) |-> members[k][1]]

\* C8: parsing the JSON rendering gives an object with the keys text,
\* language, segments in this order; its segments list has the length and
\* order of the input's, and each item has exactly the keys start, end, text
\* with the input's values, so no other field of a segment or of the result.
JsonRoundTrip ==
    Returned("json") =>
        LET parsed == JsonLoads(file.data) IN
        /\ file.exists
        /\ parsed.t = "dict"
        /\ KeysOf(parsed.members) = <<K_text, K_language, K_segments>>
        /\ parsed.members[1][2] = JStr(result.text)
        /\ parsed.members[2][2] = JStr(result.language)
        /\ parsed.members[3][2].t = "list"
        /\ Len(parsed.members[3][2].items) = Len(result.segments)
        /\ \A k \in 1..Len(result.segments) :
              LET item == parsed.members[3][2].items[k] IN
              /\ item.t = "dict"
              /\ KeysOf(item.members) = <<K_start, K_end, K_text>>
              /\ item.members[1][2] = JFloat(result.segments[k].start)
              /\ item.members[2][2] = JFloat(result.segments[k].end)
              /\ item.members[3][2] = JStr(result.segments[k].text)

JsonWitness ==
    /\ Returned("json")
    /\ Len(result.segments) >= 2
    /\ "_transcription_time" \in DOMAIN result
    /\ \A k \in 1..Len(result.segments) : "id" \in DOMAIN result.segments[k]
    /\ \E k \in 1..Len(result.segments) :
          \E j \in 1..Len(result.segments[k].text) : result.segments[k].text[j] = "\""
    /\ \E k \in 1..Len(result.segments) : result.segments[k].start # result.segments[k].end

----------------------------------------------------------------------------
(* Timestamp harness: one offset, one call                                 *)

TsHours  == {0, 1, 23, 24, 25, 100}
TsMins   == {0, 1, 59}
TsSecs   == {0, 1, 59}
TsMillis == {0, 1, 2, 199, 200, 500, 999}

TsInputs == {h * 3600000 + m * 60000 + s * 1000 + ms :
                h \in TsHours, m \in TsMins, s \in TsSecs, ms \in TsMillis}

TsInit == /\ tsPc = "idle"
          /\ tsIn \in TsInputs
          /\ tsOut = <<>>
          /\ FmtOff
          /\ MainOff

CallFormatSrtTimestamp ==
    /\ tsPc = "idle"
    /\ tsOut' = format_srt_timestamp(Seconds(tsIn))
    /\ tsPc' = "srt"
    /\ UNCHANGED <<tsIn, fmtVars, mainVars>>

CallFormatTimestamp ==
    /\ tsPc = "idle"
    /\ tsOut' = format_timestamp(Seconds(tsIn))
    /\ tsPc' = "clock"
    /\ UNCHANGED <<tsIn, fmtVars, mainVars>>

TsNext == CallFormatSrtTimestamp \/ CallFormatTimestamp

TsSpec == TsInit /\ [][TsNext]_vars

\* C6: for an offset of t whole milliseconds the subtitle timestamp is
\* HH:MM:SS,mmm with hours = t div 3600000 in at least two digits, minutes =
\* (t div 60000) mod 60, seconds = (t div 1000) mod 60, milliseconds = t mod 1000.
SubtitleTimestampIsExact ==
    tsPc = "srt" =>
        tsOut = PadDec(tsIn \div 3600000, 2) \o <<":">>
                \o PadDec((tsIn \div 60000) % 60, 2) \o <<":">>
                \o PadDec((tsIn \div 1000) % 60, 2) \o <<",">>
                \o PadDec(tsIn % 1000, 3)

\* C9: the clock string of a seconds value is H:MM:SS of its whole seconds,
\* hours = whole seconds div 3600 as a plain number (also from 24 on), minutes
\* and seconds in two digits.
ClockStringIsHMS ==
    tsPc = "clock" =>
        LET whole == tsIn \div 1000 IN
        tsOut = Dec(whole \div 3600) \o <<":">>
                \o PadDec((whole \div 60) % 60, 2) \o <<":">>
                \o PadDec(whole % 60, 2)

----------------------------------------------------------------------------
(* main                                                                    *)

\* s has the literal lit at position i
MatchesAt(s, i, lit) == i + Len(lit) - 1 <= Len(s) /\ SubSeq(s, i, i + Len(lit) - 1) = lit

\* re.search of  (https?://)?(www\.)?(youtube|youtu|youtube-nocookie)\.(com|be)/
is_youtube_url(url) ==
    \E i \in 1..Len(url) :
      \E scheme \in {<<>>, <<"h", "t", "t", "p", ":", "/", "/">>, <<"h", "t", "t", "p", "s", ":", "/", "/">>} :
        \E www \in {<<>>, <<"w", "w", "w", ".">>} :
          \E host \in {<<"y", "o", "u", "t", "u", "b", "e">>, <<"y", "o", "u", "t", "u">>, <<"y", "o", "u", "t", "u", "b", "e", "-", "n", "o", "c", "o", "o", "k", "i", "e">>} :
            \E tld \in {<<"c", "o", "m">>, <<"b", "e">>} :
              MatchesAt(url, i, scheme \o www \o host \o <<".">> \o tld \o <<"/">>)

\* the largest position of c in s, 0 when there is none
LastIndexOf(s, c) ==
    LET at == {i \in 1..Len(s) : s[i] = c}
    IN  IF at = {} THEN 0 ELSE CHOOSE i \in at : \A j \in at : j <= i

\* Path(p).name and Path(p).stem
PathName(p) == SubSeq(p, LastIndexOf(p, "/") + 1, Len(p))

PathStem(p) ==
    LET name == PathName(p)
        dot  == LastIndexOf(name, ".")
    IN  IF dot > 1 /\ dot < Len(name) THEN SubSeq(name, 1, dot - 1) ELSE name

\* dir / p
JoinPath(dir, p) == IF p # <<>> /\ p[1] = "/" THEN p ELSE dir \o <<"/">> \o p

input_dir  == <<"i", "n", "p", "u", "t">>
output_dir == <<"o", "u", "t", "p", "u", "t">>

\* where yt-dlp puts the video it downloaded
DownloadedVideo == JoinPath(input_dir, <<"v", "i", "d", ".", "m", "p", "4">>)

VideoOutputDir(vpath) == JoinPath(output_dir, PathStem(vpath))

AudioPath(vpath) == JoinPath(VideoOutputDir(vpath), PathStem(vpath) \o <<"_", "a", "u", "d", "i", "o", ".", "w", "a", "v">>)

Extension(fmt) ==
    CASE fmt = "txt" -> <<"t", "x", "t">> [] fmt = "json" -> <<"j", "s", "o", "n">>
      [] fmt = "srt" -> <<"s", "r", "t">> [] fmt = "vtt" -> <<"v", "t", "t">>

DefaultOutputPath(vpath, fmt) ==
    JoinPath(VideoOutputDir(vpath), PathStem(vpath) \o <<"_", "t", "r", "a", "n", "s", "c", "r", "i", "p", "t", "i", "o", "n", ".">> \o Extension(fmt))

\* args.output: None when the option is absent, else the string given
NoOutput == [given |-> FALSE, path |-> <<>>]
OutputArg(path) == [given |-> TRUE, path |-> path]

\* the truth value of args.output: None and "" are false
Truthy(output) == output.given /\ output.path # <<>>

\* the formats to generate
FormatsOf(format) == IF format = "all" THEN <<"txt", "json", "srt", "vtt">> ELSE <<format>>

\* a variant that honours --output whatever the number of formats
OutputPathAlwaysCustom(output, formats, fmt, vpath) ==
    IF Truthy(output) THEN output.path ELSE DefaultOutputPath(vpath, fmt)

\* output_path of one pass of the save loop
OutputPathFor(output, formats, fmt, vpath) ==
    IF Truthy(output) /\ Len(formats) = 1 THEN output.path
    ELSE DefaultOutputPath(vpath, fmt)

\* a variant that looks into input/ before the path as given
ResolveLocalInputFirst(arg, existing) ==
    IF JoinPath(input_dir, arg) \in existing
    THEN [found |-> TRUE, path |-> JoinPath(input_dir, arg), asked |-> <<JoinPath(input_dir, arg)>>]
    ELSE IF arg \in existing
    THEN [found |-> TRUE, path |-> arg, asked |-> <<JoinPath(input_dir, arg), arg>>]
    ELSE [found |-> FALSE, path |-> <<>>, asked |-> <<JoinPath(input_dir, arg), arg>>]

\* the else branch of the input check: the path as given, then input/<path>
ResolveLocal(arg, existing) ==
    IF arg \in existing
    THEN [found |-> TRUE, path |-> arg, asked |-> <<arg>>]
    ELSE IF JoinPath(input_dir, arg) \in existing
    THEN [found |-> TRUE, path |-> JoinPath(input_dir, arg), asked |-> <<arg, JoinPath(input_dir, arg)>>]
    ELSE [found |-> FALSE, path |-> <<>>, asked |-> <<arg, JoinPath(input_dir, arg)>>]

\* a variant without the sys.exit(1) after a failed extraction
AfterExtractNeverExits(ok) == "transcribe"

\* where main goes when extract_audio has returned
AfterExtract(ok) == IF ok THEN "transcribe" ELSE "exited"

VideoArgs ==
    { <<"h", "t", "t", "p", "s", ":", "/", "/", "y", "o", "u", "t", "u", ".", "b", "e", "/", "x">>,
      <<"w", "w", "w", ".", "y", "o", "u", "t", "u", "b", "e", ".", "c", "o", "m", "/", "w">>,
      <<"d", "l", "/", "y", "o", "u", "t", "u", ".", "b", "e", "/", "c", ".", "m", "p", "4">>,
      <<"c", "l", "i", "p", ".", "m", "p", "4">>,
      <<"y", "o", "u", "t", "u", "b", "e", ".", "c", "o", "m", ".", "m", "p", "4">> }

CustomOutput == <<"m", "y", ".", "o", "u", "t">>

VideoData   == <<"v", "i", "d", "e", "o">>
AudioData   == <<"w", "a", "v">>
PartialData == <<"w">>

\* the results Whisper may return in a run of main
MainResults ==
    { ResultOf(<<>>),
      ResultOf(<<Segment(0, 1200, <<" ", "h", "i", " ">>), Segment(1200, 2500, <<"1">>)>>) }

WithFile(fs, path, data) == (path :> data) @@ fs

WithoutFile(fs, path) == [q \in DOMAIN fs \ {path} |-> fs[q]]

MainInit ==
    /\ \E vp \in VideoArgs, f \in {"txt", "json", "srt", "vtt", "all"},
          o \in {NoOutput, OutputArg(<<>>), OutputArg(CustomOutput)}, k \in BOOLEAN :
          args = [video_path |-> vp, format |-> f, output |-> o, keep_audio |-> k]
    /\ \E here \in BOOLEAN, there \in BOOLEAN :
          /\ files = [q \in (IF here THEN {args.video_path} ELSE {})
                           \cup (IF there THEN {JoinPath(input_dir, args.video_path)} ELSE {})
                        |-> VideoData]
          /\ dirs = IF there THEN {input_dir} ELSE {}
    /\ mainPc = "resolve"
    /\ video_path = <<>>
    /\ fmt_index = 0
    /\ raised = FALSE
    /\ exit_code = -1
    /\ probes = <<>>
    /\ download_returned = "not called"
    /\ transcribe_calls = 0
    /\ written = <<>>
    /\ audio_created = FALSE
    /\ extracted = "pending"
    /\ FmtOff
    /\ TsOff

\* setup_directories and the resolution of the input, to its sys.exit(1)
Resolve ==
    /\ mainPc = "resolve"
    /\ dirs' = dirs \cup {input_dir, output_dir}
    /\ IF is_youtube_url(args.video_path)
       THEN \E downloaded \in BOOLEAN :
              /\ download_returned' = IF downloaded THEN "path" ELSE "None"
              /\ files' = IF downloaded THEN WithFile(files, DownloadedVideo, VideoData) ELSE files
              /\ video_path' = IF downloaded THEN DownloadedVideo ELSE <<>>
              /\ mainPc' = IF downloaded THEN "mkdir" ELSE "exited"
              /\ exit_code' = IF downloaded THEN exit_code ELSE 1
              /\ UNCHANGED probes
       ELSE LET r == ResolveLocal(args.video_path, DOMAIN files) IN
              /\ probes' = r.asked
              /\ video_path' = r.path
              /\ mainPc' = IF r.found THEN "mkdir" ELSE "exited"
              /\ exit_code' = IF r.found THEN exit_code ELSE 1
              /\ UNCHANGED <<files, download_returned>>
    /\ UNCHANGED <<args, fmt_index, raised, transcribe_calls, written, audio_created,
                   extracted, fmtVars, tsVars>>

\* video_output_dir.mkdir(exist_ok=True)
MakeVideoOutputDir ==
    /\ mainPc = "mkdir"
    /\ dirs' = dirs \cup {VideoOutputDir(video_path)}
    /\ mainPc' = "extract"
    /\ UNCHANGED <<args, files, video_path, fmt_index, raised, exit_code, probes,
                   download_returned, transcribe_calls, written, audio_created,
                   extracted, fmtVars, tsVars>>

\* extract_audio and the exit that follows its failure.  It fails before the
\* waveform file exists, while it is being written, or in video.close() after it.
ExtractAudio ==
    /\ mainPc = "extract"
    /\ \E outcome \in {"ok", "fail before", "fail partial", "fail close"} :
          /\ files' = CASE outcome = "fail before"  -> files
                        [] outcome = "fail partial" -> WithFile(files, AudioPath(video_path), PartialData)
                        [] OTHER -> WithFile(files, AudioPath(video_path), AudioData)
          /\ audio_created' = (outcome # "fail before")
          /\ extracted' = IF outcome = "ok" THEN "ok" ELSE "failed"
          /\ mainPc' = AfterExtract(outcome = "ok")
          /\ exit_code' = IF AfterExtract(outcome = "ok") = "exited" THEN 1 ELSE exit_code
    /\ UNCHANGED <<args, dirs, video_path, fmt_index, raised, probes, download_returned,
                   transcribe_calls, written, fmtVars, tsVars>>

\* transcribe_audio: Whisper returns a result or raises
Transcribe ==
    /\ mainPc = "transcribe"
    /\ transcribe_calls' = transcribe_calls + 1
    /\ \/ /\ result' \in MainResults
          /\ fmt_index' = 1
          /\ mainPc' = "save"
          /\ UNCHANGED raised
       \/ /\ raised' = TRUE
          /\ mainPc' = "finally"
          /\ UNCHANGED <<result, fmt_index>>
    /\ UNCHANGED <<args, files, dirs, video_path, exit_code, probes, download_returned,
                   written, audio_created, extracted, format_type, file, savePc, tsVars>>

\* one pass of the save loop: the file is written, or opening it raises
SaveOne ==
    /\ mainPc = "save"
    /\ LET formats     == FormatsOf(args.format)
           fmt         == formats[fmt_index]
           output_path == OutputPathFor(args.output, formats, fmt, video_path)
       IN  \/ /\ files' = WithFile(files, output_path, save_transcription(result, fmt).data)
              /\ written' = Append(written, output_path)
              /\ fmt_index' = fmt_index + 1
              /\ mainPc' = IF fmt_index = Len(formats) THEN "finally" ELSE "save"
              /\ UNCHANGED raised
           \/ /\ raised' = TRUE
              /\ mainPc' = "finally"
              /\ UNCHANGED <<files, written, fmt_index>>
    /\ UNCHANGED <<args, dirs, video_path, exit_code, probes, download_returned,
                   transcribe_calls, audio_created, extracted, fmtVars, tsVars>>

\* the finally block, and the end of the process
Finally ==
    /\ mainPc = "finally"
    /\ files' = IF ~args.keep_audio /\ AudioPath(video_path) \in DOMAIN files
                THEN WithoutFile(files, AudioPath(video_path)) ELSE files
    /\ mainPc' = "exited"
    /\ exit_code' = IF raised THEN 1 ELSE 0
    /\ UNCHANGED <<args, dirs, video_path, fmt_index, raised, probes, download_returned,
                   transcribe_calls, written, audio_created, extracted, fmtVars, tsVars>>

MainNext == Resolve \/ MakeVideoOutputDir \/ ExtractAudio \/ Transcribe \/ SaveOne \/ Finally

MainSpec == MainInit /\ [][MainNext]_vars

----------------------------------------------------------------------------
(* Properties of main                                                      *)

Exited == mainPc = "exited"

SuccessfulRun == Exited /\ exit_code = 0

\* the input was found neither as given nor under input/, or the download
\* returned no file
AcquisitionFailed ==
    /\ mainPc # "resolve"
    /\ IF is_youtube_url(args.video_path) THEN download_returned = "None"
       ELSE /\ args.video_path \notin DOMAIN files
            /\ JoinPath(input_dir, args.video_path) \notin DOMAIN files

\* C1: when the waveform file was created, fully or in part, and --keep-audio
\* was not given, the file does not exist once the process has terminated.
WaveformRemovedAtExit ==
    (Exited /\ audio_created /\ ~args.keep_audio) =>
        AudioPath(video_path) \notin DOMAIN files

\* C2: when acquisition or extraction fails, main exits with status 1 without
\* having called the transcription and without having written an output; the
\* transcription is called only after acquisition and extraction succeeded.
FailureExitsBeforeTranscription ==
    /\ (AcquisitionFailed \/ extracted = "failed") =>
          /\ Exited
          /\ exit_code = 1
          /\ transcribe_calls = 0
          /\ written = <<>>
    /\ transcribe_calls > 0 =>
          /\ ~AcquisitionFailed
          /\ video_path \in DOMAIN files
          /\ extracted = "ok"

ExtractionFailureWitness ==
    /\ Exited
    /\ extracted = "failed"
    /\ exit_code = 1
    /\ video_path # <<>>

DefaultPaths(formats) ==
    [k \in 1..Len(formats) |-> DefaultOutputPath(video_path, formats[k])]

WrittenSet == {written[k] : k \in 1..Len(written)}

\* C3 as stated: on a successful run, a single format with --output p writes
\* exactly p and nothing at the default path; a single format without --output
\* writes exactly the default file; --format all writes exactly the four
\* default files, for txt, json, srt, vtt in this order, whatever --output is.
WrittenFilesFollowOptions ==
    SuccessfulRun =>
        IF args.format = "all"
        THEN written = DefaultPaths(<<"txt", "json", "srt", "vtt">>)
        ELSE IF args.output.given
        THEN /\ written = <<args.output.path>>
             /\ DefaultOutputPath(video_path, args.format) \notin WrittenSet
        ELSE written = DefaultPaths(<<args.format>>)

\* C3 as amended: the same, with --output honoured only when p is not the
\* empty string; a single format with --output "" writes the default file.
WrittenFilesFollowNonEmptyOutput ==
    SuccessfulRun =>
        /\ WrittenSet \subseteq DOMAIN files
        /\ IF args.format = "all"
           THEN written = DefaultPaths(<<"txt", "json", "srt", "vtt">>)
           ELSE IF args.output.given /\ args.output.path # <<>>
           THEN /\ written = <<args.output.path>>
                /\ DefaultOutputPath(video_path, args.format) \notin WrittenSet
           ELSE written = DefaultPaths(<<args.format>>)

CustomOutputWitness ==
    /\ SuccessfulRun
    /\ args.format # "all"
    /\ args.output.given
    /\ args.output.path # <<>>
    /\ written = <<args.output.path>>

\* C10: an argument matching the YouTube pattern goes to the downloader and is
\* never looked up on the file system; any other argument resolves to the path
\* as given if it exists, else to input/<argument> if that exists, else the run
\* exits with status 1; a directory for the video exists only once the input is
\* resolved.
ResolutionOrder ==
    /\ mainPc # "resolve" =>
          IF is_youtube_url(args.video_path)
          THEN /\ download_returned # "not called"
               /\ probes = <<>>
               /\ (download_returned = "None") = (video_path = <<>>)
          ELSE /\ download_returned = "not called"
               /\ IF args.video_path \in DOMAIN files
                  THEN video_path = args.video_path
                  ELSE IF JoinPath(input_dir, args.video_path) \in DOMAIN files
                  THEN video_path = JoinPath(input_dir, args.video_path)
                  ELSE video_path = <<>> /\ Exited /\ exit_code = 1
    /\ \A d \in dirs \ {input_dir, output_dir} :
          video_path # <<>> /\ d = VideoOutputDir(video_path)
    /\ AcquisitionFailed => Exited /\ dirs \subseteq {input_dir, output_dir}

ResolutionWitness ==
    /\ mainPc = "extract"
    /\ ~is_youtube_url(args.video_path)
    /\ args.video_path \in DOMAIN files
    /\ JoinPath(input_dir, args.video_path) \in DOMAIN files
    /\ VideoOutputDir(video_path) \in dirs

====
